---- MODULE Spec2Model ----
(***************************************************************************)
(* river-data-collector: the pipeline of src/src/main.py (validate,        *)
(* geocode, download, normalise, diff gate, snapshot save, relational      *)
(* replace, graph replace), with the snapshot file, the PostGIS table and  *)
(* the Neo4j store as state, and the pure algorithms of                    *)
(* data/graph_builder.py and data/data_processor.py as operators.          *)
(***************************************************************************)
EXTENDS Integers, Sequences, FiniteSets, TLC

VARIABLES
    pc,             \* the statement of main() that runs next
    raw_data,       \* main.py:53  downloader.download_data(bbox)
    processed_data, \* main.py:56  processor.process_data(raw_data)
    file,           \* the snapshot file at Config.get_output_file_path()
    table,          \* the PostGIS table: id -> row
    row,            \* SqlDataStorage.save_data: records of the for loop done
    nodes,          \* Neo4j: the (:Element) nodes, id -> name
    rels,           \* Neo4j: the [:CONNECTS_TO] relationships, <<a, b>> -> count
    relationships,  \* graph_builder.py:105  the list handed to the UNWIND
    outcome,        \* how the run ended, and the except clause that reported it
    start,          \* observer: snapshot and sinks as the run found them
    calls,          \* observer: the sink methods main() has invoked in this run
    faulted,        \* observer: a collaborator failed in this run
    prev,           \* observer: how the previous run went
    pass,           \* which of two successive synchronisations is running
    once,           \* observer: the sinks after the first of the two
    saved           \* observer: the collection of the last snapshot save that returned

vars == <<pc, raw_data, processed_data, file, table, row, nodes, rels,
          relationships, outcome, start, calls, faulted, prev, pass, once, saved>>

----------------------------------------------------------------------------
(* Bounds *)

\* longest collection fed to the graph builder
MaxElems == 3
\* longest raw download of a run of main()
MaxFetch == 2
\* longest collection compared by the differ
MaxDiff == 2

----------------------------------------------------------------------------
(* Values *)

\* Python's None and a present value, for Optional fields
None == <<>>
Some(x) == <<x>>

Point(lat, lon) == [lat |-> lat, lon |-> lon]

\* Coordinates: two points that differ in lon only
Points == {Point(0, 0), Point(0, 1)}

\* Geometries: no point, a single point, open and closed polylines, and
\* polylines whose interior point (1, 1) is no endpoint
Geoms ==
    {<<>>} \cup {<<p>> : p \in Points} \cup {<<p, q>> : p, q \in Points}
    \cup {<<Point(0, 0), Point(1, 1), Point(0, 1)>>, <<Point(1, 1), Point(0, 0), Point(1, 1)>>}

Ids == {1, 2, 3}

Element(id, geometry, name) == [id |-> id, geometry |-> geometry, name |-> name]

\* every sequence over S of length at most n
SeqsUpTo(S, n) == UNION {[1..k -> S] : k \in 0..n}

Range(s) == {s[i] : i \in DOMAIN s}

----------------------------------------------------------------------------
(* data/graph_builder.py: the connection map and the relationships *)

\* connection_map[key].add(id) on a defaultdict(set); a dict keeps insertion order
MapAdd(cm, key, id) ==
    IF \E i \in DOMAIN cm : cm[i].key = key
    THEN [i \in DOMAIN cm |->
            IF cm[i].key = key THEN [cm[i] EXCEPT !.ids = @ \cup {id}] ELSE cm[i]]
    ELSE Append(cm, [key |-> key, ids |-> {id}])

\* a key that keeps the latitude only
KeyLatOnly(point) == <<point.lat, point.lat>>

\* the tuple (point["lat"], point["lon"]) used as the dict key
Key(point) == <<point.lat, point.lon>>

RECURSIVE BuildFrom(_, _, _)
\* the for loop of _build_connection_map from element i on; geometry[0] and
\* geometry[-1] raise IndexError on an empty list
BuildFrom(elements, i, cm) ==
    IF i > Len(elements) THEN [raised |-> FALSE, map |-> cm]
    ELSE LET element == elements[i]
             geometry == element.geometry
         IN  IF Len(geometry) = 0 THEN [raised |-> TRUE, map |-> <<>>]
             ELSE LET start_point == Key(geometry[1])
                      end_point == Key(geometry[Len(geometry)])
                  IN  BuildFrom(elements, i + 1,
                                MapAdd(MapAdd(cm, start_point, element.id),
                                       end_point, element.id))

_build_connection_map(elements) == BuildFrom(elements, 1, <<>>)

RECURSIVE PairsFrom(_, _, _)
\* [{"from": l[i], "to": l[j]} for i in range(len(l)) for j in range(i + 1, len(l))]
PairsFrom(l, i, j) ==
    IF i > Len(l) THEN <<>>
    ELSE IF j > Len(l) THEN PairsFrom(l, i + 1, i + 2)
    ELSE <<[from |-> l[i], to |-> l[j]]>> \o PairsFrom(l, i, j + 1)

\* the comprehension with range(i, len(l)) in place of range(i + 1, len(l))
PairsInclusive(connected_list) ==
    PairsFrom(connected_list, 1, 2)
    \o [i \in DOMAIN connected_list |-> [from |-> connected_list[i], to |-> connected_list[i]]]

\* graph_builder.py:159-163: every pair of positions i < j of the list
Pairs(connected_list) == PairsFrom(connected_list, 1, 2)

\* list(connected_ids): the ids of a set in its iteration order, which Python
\* leaves unspecified; order is the ranking of the ids this call happens to use
ListOf(connected_ids, order) == SelectSeq(order, LAMBDA x : x \in connected_ids)

RECURSIVE GenerateFrom(_, _, _)
GenerateFrom(connection_map, k, order) ==
    IF k > Len(connection_map) THEN <<>>
    ELSE LET connected_ids == connection_map[k].ids
         IN  (IF Cardinality(connected_ids) > 1
              THEN Pairs(ListOf(connected_ids, order))
              ELSE <<>>)
             \o GenerateFrom(connection_map, k + 1, order)

_generate_relationships(connection_map, order) == GenerateFrom(connection_map, 1, order)

\* the rankings a set iteration can follow
Orders == {o \in [1..Cardinality(Ids) -> Ids] : \A i, j \in DOMAIN o : i # j => o[i] # o[j]}

----------------------------------------------------------------------------
(* The Neo4j store. cleanup opens its session on database "neo4j" and
   build_graph on the driver's default database: one database here, as in a
   default Neo4j installation *)

EmptyNodes == [i \in {} |-> None]
EmptyRels == [p \in {} |-> 0]

RelCount(rs, p) == IF p \in DOMAIN rs THEN rs[p] ELSE 0

\* CREATE in place of MERGE: one more relationship per row
CreateRel(rs, a, b) ==
    IF <<a, b>> \in DOMAIN rs THEN [rs EXCEPT ![<<a, b>>] = @ + 1] ELSE rs @@ (<<a, b>> :> 1)

\* MERGE (a)-[:CONNECTS_TO]->(b): match the relationship, create it when there is none
MergeRel(rs, a, b) == IF <<a, b>> \in DOMAIN rs THEN rs ELSE rs @@ (<<a, b>> :> 1)

RECURSIVE MergeNodesFrom(_, _, _)
\* UNWIND $nodes AS node MERGE (e:Element {id: node.id}) SET e.name = node.name
MergeNodesFrom(ns, elements, i) ==
    IF i > Len(elements) THEN ns
    ELSE LET node == elements[i]
         IN  MergeNodesFrom([j \in DOMAIN ns \cup {node.id} |->
                                IF j = node.id THEN node.name ELSE ns[j]],
                            elements, i + 1)

RECURSIVE MergeRelsFrom(_, _, _, _)
\* UNWIND $relationships AS rel MATCH (a:Element {id: rel.from}), (b:Element {id: rel.to})
\* MERGE (a)-[:CONNECTS_TO]->(b) MERGE (b)-[:CONNECTS_TO]->(a)
MergeRelsFrom(rs, ns, list, i) ==
    IF i > Len(list) THEN rs
    ELSE LET rel == list[i]
         IN  MergeRelsFrom(IF rel.from \in DOMAIN ns /\ rel.to \in DOMAIN ns
                           THEN MergeRel(MergeRel(rs, rel.from, rel.to), rel.to, rel.from)
                           ELSE rs,
                           ns, list, i + 1)

----------------------------------------------------------------------------
(* data/data_processor.py *)

\* element.get("geometry", []) if element["type"] == "way" else []
_extract_geometry(element) ==
    IF element.type = "way"
    THEN (IF element.geometry = None THEN <<>> ELSE element.geometry[1])
    ELSE <<>>

\* {"id": ..., "geometry": ..., "name": element.get("tags", {}).get("name")}
_process(element) ==
    [id |-> element.id, geometry |-> _extract_geometry(element), name |-> element.name]

RECURSIVE ProcessFrom(_, _)
ProcessFrom(elements, i) ==
    IF i > Len(elements) THEN <<>>
    ELSE (IF elements[i].type = "way" THEN <<_process(elements[i])>> ELSE <<>>)
         \o ProcessFrom(elements, i + 1)

process_data(raw) == ProcessFrom(raw, 1)

\* a differ that reports change whatever it is given
ChangedAlways(new_data, old_data) == TRUE

\* new_data != old_data, old_data being None or the list json.load returned
is_data_changed(new_data, old_data) ==
    IF old_data = None THEN TRUE ELSE new_data # old_data[1]

----------------------------------------------------------------------------
(* data/data_storage.py: the snapshot file *)

JNull == [t |-> "null"]
JNum(n) == [t |-> "num", v |-> n]
JStr(s) == [t |-> "str", v |-> s]
JArr(items) == [t |-> "arr", v |-> items]
JObj(members) == [t |-> "obj", v |-> members]

\* json.dump of one coordinate dict {"lat": ..., "lon": ...}
DumpPoint(p) == JObj(<<<<"lat", JNum(p.lat)>>, <<"lon", JNum(p.lon)>>>>)

\* a dump that writes str(name): None becomes the string "None"
DumpElementStrName(e) ==
    JObj(<<<<"id", JNum(e.id)>>,
           <<"geometry", JArr([i \in DOMAIN e.geometry |-> DumpPoint(e.geometry[i])])>>,
           <<"name", IF e.name = None THEN JStr("None") ELSE JStr(e.name[1])>>>>)

\* json.dump of one processed element; None is written as null
DumpElement(e) ==
    JObj(<<<<"id", JNum(e.id)>>,
           <<"geometry", JArr([i \in DOMAIN e.geometry |-> DumpPoint(e.geometry[i])])>>,
           <<"name", IF e.name = None THEN JNull ELSE JStr(e.name[1])>>>>)

json_dump(data) == JArr([i \in DOMAIN data |-> DumpElement(data[i])])

\* the value json.load gives the member named key of an object
Member(obj, key) == (CHOOSE m \in Range(obj.v) : m[1] = key)[2]

LoadPoint(j) == [lat |-> Member(j, "lat").v, lon |-> Member(j, "lon").v]

LoadElement(j) ==
    [id |-> Member(j, "id").v,
     geometry |-> [i \in DOMAIN Member(j, "geometry").v |-> LoadPoint(Member(j, "geometry").v[i])],
     name |-> IF Member(j, "name").t = "null" THEN None ELSE Some(Member(j, "name").v)]

json_load(text) == [i \in DOMAIN text.v |-> LoadElement(text.v[i])]

\* os.path.exists(target) is False
NoFile == [exists |-> FALSE, text |-> JArr(<<>>)]

\* JsonDataStorage.save_data
JsonSaved(data) == [exists |-> TRUE, text |-> json_dump(data)]

\* JsonDataStorage.get_data: None when the file does not exist
get_data(f) == IF ~f.exists THEN None ELSE Some(json_load(f.text))

----------------------------------------------------------------------------
(* data/data_storage.py: the relational table *)

EmptyTable == [i \in {} |-> None]

\* "LINESTRING(lon lat, lon lat, ...)": longitude first
_create_linestring(coordinates) ==
    [i \in DOMAIN coordinates |-> <<coordinates[i].lon, coordinates[i].lat>>]

\* INSERT ... ON CONFLICT (id) DO UPDATE SET name, geometry
Upsert(t, item) ==
    [i \in DOMAIN t \cup {item.id} |->
        IF i = item.id
        THEN [name |-> item.name, geometry |-> _create_linestring(item.geometry)]
        ELSE t[i]]

\* a DELETE that removes one row only, in place of the TRUNCATE
DeleteFirstRow(t) ==
    IF DOMAIN t = {} THEN t
    ELSE LET first == CHOOSE i \in DOMAIN t : \A j \in DOMAIN t : i <= j
         IN  [i \in DOMAIN t \ {first} |-> t[i]]

\* TRUNCATE TABLE
Truncate(t) == EmptyTable

----------------------------------------------------------------------------
(* utils/config.py *)

ConfigVars == {"REGION", "SQL_CONFIG", "NEO4J_CONFIG", "LOGGER_CONFIG_PATH",
               "OUTPUT_DIR_PATH", "OUTPUT_FILE_NAME", "GEOCODING_AGENT", "OSM_API_URL"}

\* Which settings the environment provides. utils/logger.py:12, run when
\* main.py:22 imports it, needs LOGGER_CONFIG_PATH: main() is not reached without it
Configs == {c \in [ConfigVars -> BOOLEAN] : c["LOGGER_CONFIG_PATH"]}

\* Config.validate: the exception it raises, or "ok"
validate(c) ==
    IF ~c["REGION"] THEN "ValueError"
    ELSE IF ~c["SQL_CONFIG"] THEN "ConfigError"
    ELSE IF ~c["NEO4J_CONFIG"] THEN "ConfigError"
    ELSE IF ~c["LOGGER_CONFIG_PATH"] THEN "ConfigError"
    ELSE IF ~c["OUTPUT_DIR_PATH"] THEN "ConfigError"
    ELSE IF ~c["OUTPUT_FILE_NAME"] THEN "ConfigError"
    ELSE IF ~c["GEOCODING_AGENT"] THEN "ConfigError"
    ELSE IF ~c["OSM_API_URL"] THEN "ConfigError"
    ELSE "ok"

----------------------------------------------------------------------------
(* data/geocoder.py, data/osm_downloader.py *)

\* what geolocator.geocode does: a location, no location, or a geopy exception
GeocodeResults == {"location", "none", "GeocoderTimedOut", "GeocoderUnavailable",
                   "GeocoderServiceError"}

\* Geocoder.get_region_bbox: the exception it raises, or "ok"
get_region_bbox(result) ==
    IF result = "location" THEN "ok"
    ELSE IF result = "none" THEN "GeocodingError"
    ELSE IF result \in {"GeocoderTimedOut", "GeocoderUnavailable"} THEN "GeocodingError"
    ELSE result

\* what requests.get / raise_for_status do
RequestResults == {"response", "RequestException"}

\* OSMDownloader.download_data: the exception it raises, or "ok"
download_data(result) ==
    IF result = "RequestException" THEN "OsmApiError" ELSE "ok"

----------------------------------------------------------------------------
(* main.py: the except clauses *)

\* the clause of main.py:77-94 that catches an exception of class exc
Handler(exc) ==
    CASE exc = "ConfigError" -> "Config is not valid"
      [] exc = "GeocodingError" -> "Geocoding error"
      [] exc = "OsmApiError" -> "OSM API error"
      [] exc = "DatabaseError" -> "Database error"
      [] exc = "GraphBuilderError" -> "Graph builder error"
      [] OTHER -> "Unexpected error"

Running == [result |-> "Running", source |-> "", raised |-> "", reported |-> ""]
Ended(result) == [result |-> result, source |-> "", raised |-> "", reported |-> ""]
Failed(source, exc) ==
    [result |-> "Failed", source |-> source, raised |-> exc, reported |-> Handler(exc)]

Sinks == [table |-> table, nodes |-> nodes, rels |-> rels]
AtStart == [file |-> file, table |-> table, nodes |-> nodes, rels |-> rels]
NoPrev == [sync_failed |-> FALSE, data |-> <<>>]

\* a relational failure that is logged where it happens, main() going on to the graph
RaiseAndGoOn(source, exc) ==
    /\ pc' = IF source = "relational" THEN "graph_cleanup" ELSE "exit"
    /\ outcome' = Failed(source, exc)
    /\ faulted' = TRUE

\* an exception of class exc, raised by collaborator source, reaches main()'s
\* handlers (main.py:77-94): it is logged and main() returns
Raise(source, exc) ==
    /\ pc' = "exit"
    /\ outcome' = Failed(source, exc)
    /\ faulted' = TRUE

----------------------------------------------------------------------------
(* Inputs *)

RawElement(type, id, geometry, name) ==
    [type |-> type, id |-> id, geometry |-> geometry, name |-> name]

\* What a download of a run can hold: two ways that meet at one point, and an
\* element that is not a way
FetchElements ==
    {RawElement("way", 1, Some(<<Point(0, 0), Point(0, 1)>>), Some("Odra")),
     RawElement("way", 2, Some(<<Point(0, 1), Point(1, 1)>>), None),
     RawElement("relation", 3, None, Some("Odra"))}

Fetches == SeqsUpTo(FetchElements, MaxFetch)

----------------------------------------------------------------------------
(* main.py: one action per statement of main() *)

\* main.py:38  Config.validate()
Validate ==
    /\ pc = "validate"
    /\ \E c \in Configs :
          IF validate(c) = "ok"
          THEN pc' = "geocode" /\ UNCHANGED <<outcome, faulted>>
          ELSE Raise("config", validate(c))
    /\ UNCHANGED <<raw_data, processed_data, file, table, row, nodes, rels,
                   relationships, start, calls, prev, pass, once, saved>>

\* main.py:50  geocoder.get_region_bbox(Config.REGION)
Geocode ==
    /\ pc = "geocode"
    /\ \E r \in GeocodeResults :
          IF get_region_bbox(r) = "ok"
          THEN pc' = "download" /\ UNCHANGED <<outcome, faulted>>
          ELSE Raise("geocoder", get_region_bbox(r))
    /\ UNCHANGED <<raw_data, processed_data, file, table, row, nodes, rels,
                   relationships, start, calls, prev, pass, once, saved>>

\* main.py:53  downloader.download_data(bbox)
Download ==
    /\ pc = "download"
    /\ \E r \in RequestResults :
          IF download_data(r) = "ok"
          THEN /\ \E raw \in Fetches : raw_data' = raw
               /\ pc' = "process"
               /\ UNCHANGED <<outcome, faulted>>
          ELSE Raise("downloader", download_data(r)) /\ UNCHANGED raw_data
    /\ UNCHANGED <<processed_data, file, table, row, nodes, rels,
                   relationships, start, calls, prev, pass, once, saved>>

\* main.py:56  processor.process_data(raw_data)
Process ==
    /\ pc = "process"
    /\ processed_data' = process_data(raw_data)
    /\ pc' = "diff"
    /\ UNCHANGED <<raw_data, file, table, row, nodes, rels, relationships,
                   outcome, start, calls, faulted, prev, pass, once, saved>>

\* main.py:58-62  the diff gate
DiffCheck ==
    /\ pc = "diff"
    /\ IF ~is_data_changed(processed_data, get_data(file))
       THEN /\ pc' = "exit"
            /\ outcome' = Ended("SkippedUnchanged")
       ELSE /\ pc' = "json_save"
            /\ UNCHANGED outcome
    /\ UNCHANGED faulted
    /\ UNCHANGED <<raw_data, processed_data, file, table, row, nodes, rels,
                   relationships, start, calls, prev, pass, once, saved>>

\* main.py:58  json_storage.get_data() cannot open the file
SnapshotReadFail ==
    /\ pc = "diff"
    /\ file.exists
    /\ Raise("snapshot", "OSError")
    /\ UNCHANGED <<raw_data, processed_data, file, table, row, nodes, rels,
                   relationships, start, calls, prev, pass, once, saved>>

\* main.py:66  json_storage.save_data(processed_data)
JsonSave ==
    /\ pc = "json_save"
    /\ file' = JsonSaved(processed_data)
    /\ saved' = processed_data
    /\ pc' = "sql_cleanup"
    /\ UNCHANGED <<raw_data, processed_data, table, row, nodes, rels, relationships,
                   outcome, start, calls, faulted, prev, pass, once>>

\* main.py:66  open(target, "w") fails (OSError): nothing is written. A json.dump
\* that fails after the open, leaving a partial file, is not modelled
JsonSaveFail ==
    /\ pc = "json_save"
    /\ Raise("snapshot", "OSError")
    /\ UNCHANGED <<raw_data, processed_data, file, table, row, nodes, rels,
                   relationships, start, calls, prev, pass, once, saved>>

\* main.py:69  sql_storage.cleanup()
SqlCleanup ==
    /\ pc = "sql_cleanup"
    /\ table' = Truncate(table)
    /\ calls' = Append(calls, "sql.cleanup")
    /\ pc' = "sql_save"
    /\ UNCHANGED <<raw_data, processed_data, file, row, nodes, rels, relationships,
                   outcome, start, faulted, prev, pass, once, saved>>

\* main.py:69  the connection or the TRUNCATE fails: rolled back, DatabaseError
SqlCleanupFail ==
    /\ pc = "sql_cleanup"
    /\ calls' = Append(calls, "sql.cleanup")
    /\ Raise("relational", "DatabaseError")
    /\ UNCHANGED <<raw_data, processed_data, file, table, row, nodes, rels,
                   relationships, start, prev, pass, once, saved>>

\* main.py:70  sql_storage.save_data(processed_data): connected, the loop starts
SqlSaveBegin ==
    /\ pc = "sql_save"
    /\ calls' = Append(calls, "sql.save_data")
    /\ row' = 0
    /\ pc' = "sql_insert"
    /\ UNCHANGED <<raw_data, processed_data, file, table, nodes, rels, relationships,
                   outcome, start, faulted, prev, pass, once, saved>>

\* a save_data whose except clause logs the failed connection and returns
SqlSaveConnectFailLogged ==
    /\ pc = "sql_save"
    /\ calls' = Append(calls, "sql.save_data")
    /\ pc' = "graph_cleanup"
    /\ outcome' = Failed("relational", "DatabaseError")
    /\ faulted' = TRUE
    /\ UNCHANGED <<raw_data, processed_data, file, table, row, nodes, rels,
                   relationships, start, prev, pass, once, saved>>

\* main.py:70  psycopg2.connect fails
SqlSaveConnectFail ==
    /\ pc = "sql_save"
    /\ calls' = Append(calls, "sql.save_data")
    /\ Raise("relational", "DatabaseError")
    /\ UNCHANGED <<raw_data, processed_data, file, table, row, nodes, rels,
                   relationships, start, prev, pass, once, saved>>

\* data_storage.py:103-117  one turn of the loop: execute, then commit
SqlInsertRow ==
    /\ pc = "sql_insert"
    /\ row < Len(processed_data)
    /\ table' = Upsert(table, processed_data[row + 1])
    /\ row' = row + 1
    /\ UNCHANGED <<pc, raw_data, processed_data, file, nodes, rels, relationships,
                   outcome, start, calls, faulted, prev, pass, once, saved>>

\* a save_data that commits once, after the loop: a failure in the loop rolls
\* back every row written since the TRUNCATE
SqlInsertRowFailRollback ==
    /\ pc = "sql_insert"
    /\ row < Len(processed_data)
    /\ table' = EmptyTable
    /\ Raise("relational", "DatabaseError")
    /\ UNCHANGED <<raw_data, processed_data, file, row, nodes, rels,
                   relationships, start, calls, prev, pass, once, saved>>

\* data_storage.py:114-115  _create_linestring or execute raises: the rows
\* committed so far stay, the exception is wrapped in DatabaseError
SqlInsertRowFail ==
    /\ pc = "sql_insert"
    /\ row < Len(processed_data)
    /\ Raise("relational", "DatabaseError")
    /\ UNCHANGED <<raw_data, processed_data, file, table, row, nodes, rels,
                   relationships, start, calls, prev, pass, once, saved>>

\* data_storage.py:118  the loop is over, save_data returns
SqlSaveEnd ==
    /\ pc = "sql_insert"
    /\ row = Len(processed_data)
    /\ pc' = "graph_cleanup"
    /\ UNCHANGED <<raw_data, processed_data, file, table, row, nodes, rels,
                   relationships, outcome, start, calls, faulted, prev, pass, once, saved>>

\* a cleanup that deletes the relationships and leaves the nodes
GraphCleanupRelsOnly ==
    /\ pc = "graph_cleanup"
    /\ rels' = EmptyRels
    /\ calls' = Append(calls, "graph.cleanup")
    /\ pc' = "create_nodes"
    /\ UNCHANGED <<raw_data, processed_data, file, table, row, nodes, relationships,
                   outcome, start, faulted, prev, pass, once, saved>>

\* main.py:74  graph_builder.cleanup(): MATCH (n:Element) DETACH DELETE n
GraphCleanup ==
    /\ pc = "graph_cleanup"
    /\ nodes' = EmptyNodes
    /\ rels' = EmptyRels
    /\ calls' = Append(calls, "graph.cleanup")
    /\ pc' = "create_nodes"
    /\ UNCHANGED <<raw_data, processed_data, file, table, row, relationships,
                   outcome, start, faulted, prev, pass, once, saved>>

\* main.py:74  the session or the statement fails: GraphBuilderError
GraphCleanupFail ==
    /\ pc = "graph_cleanup"
    /\ calls' = Append(calls, "graph.cleanup")
    /\ Raise("graph", "GraphBuilderError")
    /\ UNCHANGED <<raw_data, processed_data, file, table, row, nodes, rels,
                   relationships, start, prev, pass, once, saved>>

\* main.py:75, graph_builder.py:69  build_graph: _create_nodes
CreateNodes ==
    /\ pc = "create_nodes"
    /\ nodes' = MergeNodesFrom(nodes, processed_data, 1)
    /\ calls' = Append(calls, "graph.build_graph")
    /\ pc' = "create_relationships"
    /\ UNCHANGED <<raw_data, processed_data, file, table, row, rels, relationships,
                   outcome, start, faulted, prev, pass, once, saved>>

\* graph_builder.py:68-69  the session or the node statement fails
CreateNodesFail ==
    /\ pc = "create_nodes"
    /\ calls' = Append(calls, "graph.build_graph")
    /\ Raise("graph", "GraphBuilderError")
    /\ UNCHANGED <<raw_data, processed_data, file, table, row, nodes, rels,
                   relationships, start, prev, pass, once, saved>>

\* graph_builder.py:70, 94-114  _create_relationships, then build_graph returns
\* and main() with it
CreateRelationships ==
    /\ pc = "create_relationships"
    /\ LET connection_map == _build_connection_map(processed_data)
       IN  IF connection_map.raised
           THEN /\ Raise("graph", "GraphBuilderError")
                /\ UNCHANGED <<rels, relationships>>
           ELSE /\ \E order \in Orders :
                      relationships' = _generate_relationships(connection_map.map, order)
                /\ rels' = MergeRelsFrom(rels, nodes, relationships', 1)
                /\ pc' = "exit"
                /\ outcome' = Ended("Done")
                /\ UNCHANGED faulted
    /\ UNCHANGED <<raw_data, processed_data, file, table, row, nodes,
                   start, calls, prev, pass, once, saved>>

\* graph_builder.py:105-114  the relationship statement fails
CreateRelationshipsFail ==
    /\ pc = "create_relationships"
    /\ Raise("graph", "GraphBuilderError")
    /\ UNCHANGED <<raw_data, processed_data, file, table, row, nodes, rels,
                   relationships, start, calls, prev, pass, once, saved>>

\* the caller (a scheduled invocation) runs main() again
NextRun ==
    /\ pc = "exit"
    /\ pc' = "validate"
    /\ prev' = IF outcome.source \in {"relational", "graph"}
               THEN [sync_failed |-> TRUE, data |-> raw_data]
               ELSE NoPrev
    /\ start' = AtStart
    /\ outcome' = Running
    /\ calls' = <<>>
    /\ faulted' = FALSE
    /\ raw_data' = <<>>
    /\ processed_data' = <<>>
    /\ relationships' = <<>>
    /\ row' = 0
    /\ UNCHANGED <<file, table, nodes, rels, pass, once, saved>>

----------------------------------------------------------------------------
(* The pipeline: runs of main() on a fresh deployment *)

Init ==
    /\ pc = "validate"
    /\ raw_data = <<>>
    /\ processed_data = <<>>
    /\ file = NoFile
    /\ table = EmptyTable
    /\ row = 0
    /\ nodes = EmptyNodes
    /\ rels = EmptyRels
    /\ relationships = <<>>
    /\ outcome = Running
    /\ start = AtStart
    /\ calls = <<>>
    /\ faulted = FALSE
    /\ prev = NoPrev
    /\ pass = 0
    /\ once = Sinks
    /\ saved = <<>>

Next ==
    \/ Validate \/ Geocode \/ Download \/ Process
    \/ DiffCheck \/ SnapshotReadFail
    \/ JsonSave \/ JsonSaveFail
    \/ SqlCleanup \/ SqlCleanupFail
    \/ SqlSaveBegin \/ SqlSaveConnectFail
    \/ SqlInsertRow \/ SqlInsertRowFail \/ SqlSaveEnd
    \/ GraphCleanup \/ GraphCleanupFail
    \/ CreateNodes \/ CreateNodesFail
    \/ CreateRelationships \/ CreateRelationshipsFail
    \/ NextRun

Spec == Init /\ [][Next]_vars

----------------------------------------------------------------------------
(* What a sink holds after a full load of a collection *)

RECURSIVE TableFrom(_, _, _)
TableFrom(t, data, i) ==
    IF i > Len(data) THEN t ELSE TableFrom(Upsert(t, data[i]), data, i + 1)

\* the table after cleanup and the first k records of data
TableOf(data, k) == TableFrom(EmptyTable, SubSeq(data, 1, k), 1)

NodesOf(data) == MergeNodesFrom(EmptyNodes, data, 1)

\* the ordered pairs of ids whose records share an endpoint, each once
RelsOf(data) ==
    LET ends(e) == {Key(e.geometry[1]), Key(e.geometry[Len(e.geometry)])}
        linked == {<<a.id, b.id>> : a, b \in {e \in Range(data) : Len(e.geometry) > 0}}
        pairs == {p \in {<<a.id, b.id>> : a, b \in Range(data)} :
                    /\ p[1] # p[2]
                    /\ \E a, b \in Range(data) :
                          /\ a.id = p[1] /\ b.id = p[2]
                          /\ Len(a.geometry) > 0 /\ Len(b.geometry) > 0
                          /\ ends(a) \cap ends(b) # {}}
    IN  [p \in pairs |-> 1]

SyncOrder == <<"sql.cleanup", "sql.save_data", "graph.cleanup", "graph.build_graph">>

IsPrefix(s, t) == Len(s) <= Len(t) /\ \A i \in DOMAIN s : s[i] = t[i]

WriteSteps == {"json_save", "sql_cleanup", "sql_save", "sql_insert",
               "graph_cleanup", "create_nodes", "create_relationships"}

----------------------------------------------------------------------------
(* Claims on the pipeline *)

\* C1: a run of main() that ends in a Failed outcome leaves the snapshot file
\* as it found it; the snapshot is replaced only by a run that ends Done.
C1_FailedRunKeepsSnapshot ==
    (pc = "exit" /\ outcome.result # "Done") => file = start.file

\* C2: after a run that failed during synchronisation, a run on the same fetched
\* input with no fault ends with both sinks holding the full load of that input.
C2_RetryRecovers ==
    (pc = "exit" /\ prev.sync_failed /\ prev.data = raw_data /\ ~faulted)
        => /\ table = TableOf(processed_data, Len(processed_data))
           /\ nodes = NodesOf(processed_data)
           /\ rels = RelsOf(processed_data)

\* C4: the sink methods are invoked in the order relational cleanup, relational
\* load, graph cleanup, graph build; a run whose relational replace failed has
\* invoked no graph method; a graph method is invoked only once the relational
\* load has written every record.
C4_Sequencing ==
    /\ IsPrefix(calls, SyncOrder)
    /\ outcome.source = "relational" =>
          /\ "graph.cleanup" \notin Range(calls)
          /\ "graph.build_graph" \notin Range(calls)
    /\ "graph.cleanup" \in Range(calls) =>
          /\ row = Len(processed_data)
          /\ table = TableOf(processed_data, Len(processed_data))

\* C4 witness: the relational load failed after the graph held an earlier
\* collection, and the run ended
C4_Witness ==
    /\ pc = "exit"
    /\ outcome.source = "relational"
    /\ calls = <<"sql.cleanup", "sql.save_data">>
    /\ DOMAIN nodes # {}

\* the collection of this run equals the snapshot the run found
SameAsSnapshot ==
    /\ start.file.exists
    /\ json_load(start.file.text) = processed_data
    /\ pc \notin {"validate", "geocode", "download", "process"}

\* C5: a run whose collection equals the persisted snapshot reaches no write
\* step and ends SkippedUnchanged, reported by no except clause; a run that
\* ends SkippedUnchanged has invoked no sink method and left the snapshot
\* file, the table and the graph store as it found them.
C5_DiffGate ==
    /\ SameAsSnapshot =>
          /\ pc \notin WriteSteps
          /\ (pc = "exit" /\ ~faulted) => outcome = Ended("SkippedUnchanged")
    /\ outcome.result = "SkippedUnchanged" =>
          /\ SameAsSnapshot
          /\ calls = <<>>
          /\ AtStart = start

\* C5 witness: a skipped run over a non-empty snapshot and loaded sinks
C5_Witness ==
    /\ outcome.result = "SkippedUnchanged"
    /\ Len(processed_data) = 2
    /\ DOMAIN table # {}
    /\ DOMAIN rels # {}

\* the except clause that names the failures of a collaborator
OwnKind(source) ==
    CASE source = "config" -> "Config is not valid"
      [] source = "geocoder" -> "Geocoding error"
      [] source = "downloader" -> "OSM API error"
      [] source = "relational" -> "Database error"
      [] source = "graph" -> "Graph builder error"
      [] source = "snapshot" -> "Snapshot error"

\* C6: every failure of a collaborator is reported under the kind of that
\* collaborator, never as an unexpected error.
C6_OwnErrorKind ==
    outcome.result = "Failed" => outcome.reported = OwnKind(outcome.source)

----------------------------------------------------------------------------
(* The graph builder alone: build_graph on a collection, into an empty store *)

GraphCollections == SeqsUpTo({Element(i, g, None) : i \in Ids, g \in Geoms}, MaxElems)

InitGraph ==
    /\ pc = "create_nodes"
    /\ raw_data = <<>>
    /\ processed_data \in GraphCollections
    /\ file = NoFile
    /\ table = EmptyTable
    /\ row = 0
    /\ nodes = EmptyNodes
    /\ rels = EmptyRels
    /\ relationships = <<>>
    /\ outcome = Running
    /\ start = AtStart
    /\ calls = <<>>
    /\ faulted = FALSE
    /\ prev = NoPrev
    /\ pass = 0
    /\ once = Sinks
    /\ saved = <<>>

NextGraph == CreateNodes \/ CreateRelationships

SpecGraph == InitGraph /\ [][NextGraph]_vars

Built == pc = "exit" /\ outcome.result = "Done"

UniqueIds(data) == \A i, j \in DOMAIN data : data[i].id = data[j].id => i = j

\* the first and last coordinate of a record
Endpoints(e) == {e.geometry[1], e.geometry[Len(e.geometry)]}

SharesEndpoint(a, b) ==
    \E p \in Endpoints(a), q \in Endpoints(b) : p.lat = q.lat /\ p.lon = q.lon

Emitted(a, b) ==
    \E k \in DOMAIN relationships :
        \/ relationships[k].from = a /\ relationships[k].to = b
        \/ relationships[k].from = b /\ relationships[k].to = a

\* C3: when the builder has emitted the relationships of a collection with
\* unique ids, two distinct records are linked by an emitted relationship, in
\* either direction, exactly when an endpoint of one equals an endpoint of the
\* other in lat and in lon; every emitted relationship links ids of the collection.
C3_EndpointGrouping ==
    (Built /\ UniqueIds(processed_data)) =>
        /\ \A i, j \in DOMAIN processed_data :
              i # j => (Emitted(processed_data[i].id, processed_data[j].id)
                        <=> SharesEndpoint(processed_data[i], processed_data[j]))
        /\ \A k \in DOMAIN relationships :
              {relationships[k].from, relationships[k].to}
                  \subseteq {processed_data[i].id : i \in DOMAIN processed_data}

\* C3 witness: three records with unique ids meet at one point and all three
\* pairs are emitted
C3_Witness ==
    /\ Built
    /\ UniqueIds(processed_data)
    /\ Len(processed_data) = 3
    /\ \A i, j \in DOMAIN processed_data :
          i # j => /\ SharesEndpoint(processed_data[i], processed_data[j])
                   /\ Emitted(processed_data[i].id, processed_data[j].id)
    /\ Len(relationships) = 3

\* C8: no emitted relationship has from = to, and the store holds no
\* relationship from a node to itself.
C8_NoSelfEdges ==
    /\ \A k \in DOMAIN relationships : relationships[k].from # relationships[k].to
    /\ \A p \in DOMAIN rels : p[1] # p[2]

\* C8 witness: a closed polyline and a single-point geometry, each inserted
\* twice under one key, are linked to each other
C8_Witness ==
    /\ Built
    /\ \E i, j \in DOMAIN processed_data :
          /\ Len(processed_data[i].geometry) = 1
          /\ Len(processed_data[j].geometry) > 1
          /\ processed_data[j].geometry[1] = processed_data[j].geometry[Len(processed_data[j].geometry)]
          /\ Emitted(processed_data[i].id, processed_data[j].id)

\* C9: the store built by build_graph holds each connection once: at most one
\* relationship from a to b, and with it exactly one from b to a.
C9_MultiplicityCollapses ==
    Built => \A p \in DOMAIN rels : rels[p] = 1 /\ RelCount(rels, <<p[2], p[1]>>) = 1

\* C9 witness: two records share both endpoints, the pair is emitted once per
\* shared coordinate, and the store holds it once in each direction
C9_Witness ==
    /\ Built
    /\ \E k, l \in DOMAIN relationships :
          /\ k # l
          /\ {relationships[k].from, relationships[k].to}
                = {relationships[l].from, relationships[l].to}
          /\ rels[<<relationships[k].from, relationships[k].to>>] = 1
          /\ rels[<<relationships[k].to, relationships[k].from>>] = 1

----------------------------------------------------------------------------
(* The synchronisation alone: main.py:69-75 twice in succession on one
   collection, over sinks that hold an earlier, possibly partial, load *)

SyncElements ==
    {_process(e) : e \in {f \in FetchElements : f.type = "way"}}
    \cup {Element(1, <<Point(1, 1)>>, None)}

SyncCollections == SeqsUpTo(SyncElements, MaxFetch)

\* the relationships build_graph leaves in an empty store
BuiltRels(data) ==
    MergeRelsFrom(EmptyRels, NodesOf(data),
                  _generate_relationships(_build_connection_map(data).map,
                                          CHOOSE o \in Orders : TRUE), 1)

InitSync ==
    /\ pc = "sql_cleanup"
    /\ raw_data = <<>>
    /\ processed_data \in SyncCollections
    /\ file = NoFile
    /\ \E earlier \in SyncCollections :
          /\ \E k \in 0..Len(earlier) : table = TableOf(earlier, k)
          /\ \/ nodes = EmptyNodes /\ rels = EmptyRels
             \/ nodes = NodesOf(earlier) /\ rels = EmptyRels
             \/ nodes = NodesOf(earlier) /\ rels = BuiltRels(earlier)
    /\ row = 0
    /\ relationships = <<>>
    /\ outcome = Running
    /\ start = AtStart
    /\ calls = <<>>
    /\ faulted = FALSE
    /\ prev = NoPrev
    /\ pass = 1
    /\ once = Sinks
    /\ saved = <<>>

\* the same synchronisation is performed again
Resync ==
    /\ pc = "exit"
    /\ outcome.result = "Done"
    /\ pass = 1
    /\ pass' = 2
    /\ once' = Sinks
    /\ pc' = "sql_cleanup"
    /\ outcome' = Running
    /\ calls' = <<>>
    /\ row' = 0
    /\ relationships' = <<>>
    /\ UNCHANGED <<raw_data, processed_data, file, table, nodes, rels, start,
                   faulted, prev, saved>>

NextSync ==
    \/ SqlCleanup \/ SqlSaveBegin \/ SqlInsertRow \/ SqlSaveEnd
    \/ GraphCleanup \/ CreateNodes \/ CreateRelationships
    \/ Resync

SpecSync == InitSync /\ [][NextSync]_vars

\* C7: after the second of two successive synchronisations of one collection
\* the table and the graph store are what they were after the first.
C7_IdempotentResync == (pass = 2 /\ Built) => Sinks = once

\* C7 witness: the second synchronisation has ended over sinks that held other
\* rows, nodes and relationships before the first
C7_Witness ==
    /\ pass = 2
    /\ Built
    /\ DOMAIN rels # {}
    /\ DOMAIN start.table # {}
    /\ DOMAIN start.rels # {}
    /\ start.table # table
    /\ start.nodes # nodes

----------------------------------------------------------------------------
(* The differ alone: main.py:58 on a collection and a snapshot file *)

DiffElements ==
    {Element(i, g, n) : i \in {1, 2},
                        g \in {<<Point(0, 0)>>, <<Point(0, 0), Point(0, 1)>>},
                        n \in {None, Some("Odra")}}

DiffCollections == SeqsUpTo(DiffElements, MaxDiff)

InitDiff ==
    /\ pc = "diff"
    /\ raw_data = <<>>
    /\ processed_data \in DiffCollections
    /\ \/ file = NoFile /\ saved = <<>>
       \/ \E previous \in DiffCollections : file = JsonSaved(previous) /\ saved = previous
    /\ table = EmptyTable
    /\ row = 0
    /\ nodes = EmptyNodes
    /\ rels = EmptyRels
    /\ relationships = <<>>
    /\ outcome = Running
    /\ start = AtStart
    /\ calls = <<>>
    /\ faulted = FALSE
    /\ prev = NoPrev
    /\ pass = 0
    /\ once = Sinks

NextDiff == DiffCheck \/ JsonSave

SpecDiff == InitDiff /\ [][NextDiff]_vars

\* two collections differ as ordered sequences of (id, geometry, name) records
DiffersAsSequences(current, previous) ==
    \/ Len(current) # Len(previous)
    \/ \E i \in DOMAIN current :
          \/ current[i].id # previous[i].id
          \/ current[i].geometry # previous[i].geometry
          \/ current[i].name # previous[i].name

\* C10: the differ reports change exactly when there is no snapshot file or the
\* collection differs, as an ordered sequence of (id, geometry, name) records,
\* from the collection the snapshot file was written from.
C10_DifferCharacterization ==
    /\ pc = "json_save" => (~file.exists \/ DiffersAsSequences(processed_data, saved))
    /\ (pc = "exit" /\ outcome.result = "SkippedUnchanged")
          => (file.exists /\ ~DiffersAsSequences(processed_data, saved))

\* C10 witness: the same two records in the other order are reported as changed
C10_Witness ==
    /\ pc = "json_save"
    /\ file.exists
    /\ Len(processed_data) = 2
    /\ Len(saved) = 2
    /\ processed_data[1] = saved[2]
    /\ processed_data[2] = saved[1]
    /\ processed_data[1] # processed_data[2]

----------------------------------------------------------------------------
(* Normalisation and what follows it: main.py:56-75 on a raw download that
   holds ways with and without coordinates and elements that are not ways *)

\* Raw elements of an Overpass answer: the ways and the relation of a run, a
\* way with no "geometry" key, a way whose "geometry" is [], and a node
NormalizeElements ==
    FetchElements
    \cup {RawElement("way", 3, None, None),
          RawElement("way", 3, Some(<<>>), Some("Odra")),
          RawElement("node", 1, None, None)}

NormalizeFetches == SeqsUpTo(NormalizeElements, MaxFetch)

InitNormalize ==
    /\ pc = "process"
    /\ raw_data \in NormalizeFetches
    /\ processed_data = <<>>
    /\ file = NoFile
    /\ table = EmptyTable
    /\ row = 0
    /\ nodes = EmptyNodes
    /\ rels = EmptyRels
    /\ relationships = <<>>
    /\ outcome = Running
    /\ start = AtStart
    /\ calls = <<>>
    /\ faulted = FALSE
    /\ prev = NoPrev
    /\ pass = 0
    /\ once = Sinks
    /\ saved = <<>>

\* ST_GeomFromText is handed "LINESTRING()" for a record without coordinates:
\* the statement may be rejected (SqlInsertRowFail) or accepted (SqlInsertRow)
NextNormalize ==
    \/ Process \/ DiffCheck \/ JsonSave
    \/ SqlCleanup \/ SqlSaveBegin
    \/ SqlInsertRow \/ SqlInsertRowFail \/ SqlSaveEnd
    \/ GraphCleanup \/ CreateNodes \/ CreateRelationships

SpecNormalize == InitNormalize /\ [][NextNormalize]_vars

\* C11: every record that process_data accepts has a non-empty coordinate
\* sequence: no record without coordinates is in the collection handed to the
\* differ, the snapshot, the relational sink and the graph builder.
C11_AcceptedNonEmpty ==
    \A i \in DOMAIN processed_data : Len(processed_data[i].geometry) > 0

----------------------------------------------------------------------------
(* Claims on what a run leaves in the sinks *)

\* C12: when a run ends Done, the table holds exactly one row per record of the
\* current collection, the graph store holds exactly one node per record and
\* one relationship in each direction between the records that share an
\* endpoint, nothing else is left in either sink, and the snapshot file reads
\* back as the current collection.
C12_FullReplace ==
    (pc = "exit" /\ outcome.result = "Done") =>
        LET data == processed_data
            ids == {data[i].id : i \in DOMAIN data}
        IN  /\ DOMAIN table = ids
            /\ UniqueIds(data) => Cardinality(DOMAIN table) = Len(data)
            /\ \A i \in DOMAIN data :
                  table[data[i].id] = [name |-> data[i].name,
                                       geometry |-> _create_linestring(data[i].geometry)]
            /\ DOMAIN nodes = ids
            /\ \A i \in DOMAIN data : nodes[data[i].id] = data[i].name
            /\ DOMAIN rels = {<<data[i].id, data[j].id>> : i, j \in DOMAIN data}
                             \cap {p \in Ids \X Ids :
                                     /\ p[1] # p[2]
                                     /\ \E i, j \in DOMAIN data :
                                           /\ data[i].id = p[1] /\ data[j].id = p[2]
                                           /\ SharesEndpoint(data[i], data[j])}
            /\ \A p \in DOMAIN rels : rels[p] = 1
            /\ file.exists
            /\ json_load(file.text) = data

\* C12 witness: a run ends Done on a collection that has dropped a record of the
\* previous snapshot; the row, the node and the relationships of that record,
\* present when the run started, are gone
C12_Witness ==
    /\ pc = "exit"
    /\ outcome.result = "Done"
    /\ Len(processed_data) > 0
    /\ start.file.exists
    /\ \E gone \in DOMAIN start.table :
          /\ gone \in DOMAIN start.nodes
          /\ \E p \in DOMAIN start.rels : p[1] = gone
          /\ \A i \in DOMAIN json_load(file.text) : json_load(file.text)[i].id # gone
          /\ \E i \in DOMAIN json_load(start.file.text) : json_load(start.file.text)[i].id = gone
          /\ gone \notin DOMAIN table
          /\ gone \notin DOMAIN nodes
          /\ \A p \in DOMAIN rels : gone \notin {p[1], p[2]}

\* C13: in a run where the relational cleanup or the relational load failed, the
\* nodes and the relationships of the graph store are those the run found.
C13_GraphFrame ==
    outcome.source = "relational" => (nodes = start.nodes /\ rels = start.rels)

\* C13 witness: the relational load failed after the table was truncated; the
\* graph store still holds the graph of the previous snapshot, which is not the
\* graph of the current collection
C13_Witness ==
    /\ pc = "exit"
    /\ outcome.source = "relational"
    /\ "sql.save_data" \in Range(calls)
    /\ table # start.table
    /\ DOMAIN rels # {}
    /\ nodes = start.nodes
    /\ DOMAIN nodes # {processed_data[i].id : i \in DOMAIN processed_data}

\* the rows of the first k records of a collection
FirstRows(data, k) ==
    [id \in {data[i].id : i \in 1..k} |->
        LET i == CHOOSE i \in 1..k : data[i].id = id /\ \A j \in (i + 1)..k : data[j].id # id
        IN  [name |-> data[i].name, geometry |-> _create_linestring(data[i].geometry)]]

\* C14 as stated: when the load fails while writing the k-th record, the table is
\* left with exactly the rows of the first k-1 records, is not empty, is not the
\* full new collection and is not what the run found, and the failure is
\* raised as DatabaseError.
C14_PartialLoadNeitherNor ==
    [][SqlInsertRowFail =>
          /\ table' = FirstRows(processed_data, row)
          /\ table' # EmptyTable
          /\ table' # FirstRows(processed_data, Len(processed_data))
          /\ table' # start.table
          /\ outcome'.raised = "DatabaseError"]_vars

\* C14: when the load fails while writing the k-th record, the table is left
\* with exactly the rows of the first k-1 records, which for k > 1 is not empty
\* and, the ids of the collection being distinct, is not the full new
\* collection; the failure is raised as DatabaseError, reported as a database
\* error, and ends the run.
C14_PartialLoadDurable ==
    [][SqlInsertRowFail =>
          /\ table' = FirstRows(processed_data, row)
          /\ row > 0 => table' # EmptyTable
          /\ UniqueIds(processed_data) =>
                table' # FirstRows(processed_data, Len(processed_data))
          /\ outcome'.raised = "DatabaseError"
          /\ outcome'.reported = "Database error"
          /\ pc' = "exit"]_vars

\* C14 witness: the load failed at the second of two records over a table that
\* held other rows; the table holds the first record only
C14_Witness ==
    /\ pc = "exit"
    /\ outcome.source = "relational"
    /\ outcome.raised = "DatabaseError"
    /\ row = 1
    /\ Len(processed_data) = 2
    /\ DOMAIN table = {processed_data[1].id}
    /\ DOMAIN start.table # {}
    /\ table # start.table
    /\ table # FirstRows(processed_data, 2)

====
